---- MODULE Spec2Model ----
(***************************************************************************)
(* Model of the bettensor miner: the Redis request/reply bridge            *)
(* (bettensor/miner/interfaces/redis_interface.py) and the miner's         *)
(* request path and bridge listener (bettensor/miner/bettensor_miner.py).  *)
(*                                                                         *)
(* SpecBridge  the client side of the bridge: execute_db_operation,        *)
(*             wait_for_result, the key-value surface and its clock.       *)
(* FairBridge  SpecBridge with the fairness of time and of running threads.*)
(* SpecMiner   the serving process: forward() on the axon thread and on    *)
(*             the listener thread, the listener loop, the change cache.   *)
(* SpecWager   the wager path of the command line client                   *)
(*             (bettensor/miner/cli.py): the wager confirmation view and   *)
(*             the stats it debits.                                        *)
(***************************************************************************)
EXTENDS Integers, Sequences, FiniteSets, TLC

(* ------------------------------ bounds --------------------------------- *)
MaxTime == 5         \* the clock runs 0..MaxTime (seconds)
MaxCalls == 2        \* requests the miner is sent: to the axon and on its channel
MaxDay == 1          \* the date runs 0..MaxDay
MaxWagers == 2       \* wagers the client confirms
DailyCash == 2       \* the cash an identity holds after a daily reset

(* ------------------------- program constants --------------------------- *)
DefaultTimeout == 5  \* wait_for_result(message_id, timeout=5)

\* The two client calls of wait_for_result / execute_db_operation.
Waiters == {"callerA", "callerB"}
\* Correlation ids (uuid4 values): one per client call is all that can be in use.
MsgIds == {"id1", "id2"}
NoId == "none"
Nil == [nil |-> TRUE]

DbChannel == "db_operations"
MinerChannel == "miner:uid:hotkey"

VARIABLES
  now,            \* time.time(), in seconds
  is_connected,   \* RedisInterface.is_connected of the client
  contacted,      \* whether a command of the interface has been sent to the broker
  store,          \* the broker's keys: a set of [key, val, ttl]
  written,        \* ids whose result:<id> the external writer has stored
  published,      \* every (channel, message) handed to the broker
  inbox,          \* messages the broker delivered to the miner's subscription
  wpc,            \* per client call: position in wait_for_result
  wvia,           \* "direct" call of wait_for_result, or through execute_db_operation
  wid,            \* message_id the call waits for
  wstart,         \* start_time
  wres,           \* the value the call's get returned / the call's return value
  lpc,            \* the listener thread: position in listen_for_redis_messages
  ldata,          \* the listener's decoded message (data)
  fpc,            \* per thread: position in forward()
  syn,            \* per thread: the synapse forward() works on
  changed,        \* per thread: changed_games
  recent,         \* per thread: recent_predictions
  fret,           \* per thread: what forward() returned
  fingerprints,   \* CacheManager: game id -> stored fingerprint
  cached_predictions, \* CacheManager: game id -> last computed output
  stats,          \* MinerStateManager: deltas applied, and whether some are unsaved
  served,         \* number of requests the axon has taken
  sent,           \* number of messages published on the miner's channel
  priority,       \* what priority() returned for the axon's request, if called
  sm_calls,       \* per thread: the calls forward() has made on the state manager
  last_call,      \* the last publish/subscribe/get/set call and what it returned
  manager,        \* MinerStateManager of a process: persisted and buffered totals, writes
  phase,          \* that process: running, stopped, exited or raised
  applied_log,    \* the deltas handed to the manager, with the phase of the call
  pwrites,        \* the times at which periodic_db_update wrote to the store
  construction,   \* BettensorMiner.__init__ and the listener thread it starts
  incentive,      \* get_current_incentive: the clock, the attributes, the last call
  table,          \* the view of the client: an InteractiveTable and the data it lists
  today,          \* the current date, in days
  state,          \* MinerStateManager of the CLI: the identity's stats
  miner_cash,     \* Application.miner_cash
  current_view,   \* Application.current_view
  view_cash,      \* WagerConfirm.miner_cash
  wager_text,     \* WagerConfirm.wager_input.text
  confirmation_message, \* WagerConfirm.confirmation_message
  predictions,    \* Application.predictions: the wagers of its records
  stored          \* the prediction records PredictionsHandler has stored

bridgeVars == <<now, is_connected, contacted, store, written, published, inbox,
                wpc, wvia, wid, wstart, wres>>

minerVars == <<lpc, ldata, fpc, syn, changed, recent, fret, fingerprints,
               cached_predictions, stats, served, sent, priority, sm_calls>>

clientVars == <<last_call>>

statsVars == <<manager, phase, applied_log, pwrites>>

extraVars == <<construction, incentive, table>>

wagerVars == <<today, state, miner_cash, current_view, view_cash, wager_text,
               confirmation_message, predictions, stored>>

vars == <<bridgeVars, minerVars, wagerVars, clientVars, statsVars, extraVars>>

(* ------------------------- the key-value surface ----------------------- *)
ResultKey(m) == [prefix |-> "result", id |-> m]
ResponseKey(m) == [prefix |-> "response", id |-> m]

\* A key stored by SET without EX never expires; one stored with EX has a
\* finite time-to-live, whose length the reader does not know.
NoExpiry == "none"
FiniteExpiry == "finite"

\* redis GET: the value, or Nil (None) when the key is absent.
RedisGet(s, k) ==
  IF \E e \in s : e.key = k
  THEN (CHOOSE e \in s : e.key = k).val
  ELSE Nil

\* redis SET key value [EX ttl]: replaces the key.
RedisSet(s, k, v, ttl) == {e \in s : e.key # k} \cup {[key |-> k, val |-> v, ttl |-> ttl]}

\* redis DEL
RedisDelete(s, k) == {e \in s : e.key # k}

(* ------------------------------ encoding ------------------------------- *)
\* json.dumps of an object, and a text that is not JSON.
JsonDumps(obj) == [json |-> TRUE, obj |-> obj]
NotJson == [json |-> FALSE, obj |-> Nil]
IsJson(text) == text.json
JsonLoads(text) == text.obj

\* The message execute_db_operation builds.
DbOpMessage(m) == [id |-> m, operation |-> "op", params |-> "params"]

\* redis PUBLISH: a message reaches the subscribers of its channel only.
Deliver(q, chan, text) ==
  IF chan = MinerChannel THEN Append(q, [type |-> "message", data |-> text]) ELSE q

(* --------------------------- wait_for_result --------------------------- *)
\* The loop test with its operands exchanged.
DeadlineOpenSwapped(start, t) == start - t < DefaultTimeout

\* time.time() - start_time < timeout
DeadlineOpen(start, t) == t - start < DefaultTimeout

\* A call of wait_for_result(m) begins: start_time = time.time().
BeginWait(w, m, via) ==
  /\ wpc' = [wpc EXCEPT ![w] = "loop"]
  /\ wvia' = [wvia EXCEPT ![w] = via]
  /\ wid' = [wid EXCEPT ![w] = m]
  /\ wstart' = [wstart EXCEPT ![w] = now]

WaitForResult(w, m) ==
  /\ wpc[w] = "idle"
  /\ now + DefaultTimeout <= MaxTime
  /\ BeginWait(w, m, "direct")
  /\ UNCHANGED <<now, is_connected, contacted, store, written, published, inbox, wres>>
  /\ UNCHANGED <<minerVars, wagerVars, clientVars, statsVars, extraVars>>

\* while time.time() - start_time < timeout: ... else raise TimeoutError
WaitLoop(w) ==
  /\ wpc[w] = "loop"
  /\ wpc' = [wpc EXCEPT ![w] = IF DeadlineOpen(wstart[w], now) THEN "get" ELSE "timeout"]
  /\ UNCHANGED <<now, is_connected, contacted, store, written, published, inbox, wvia, wid, wstart, wres>>
  /\ UNCHANGED <<minerVars, wagerVars, clientVars, statsVars, extraVars>>

\* result = self.redis_client.get(...); the call is not guarded: without a
\* client, or when the broker fails, the exception leaves wait_for_result.
WaitGet(w) ==
  /\ wpc[w] = "get"
  /\ \E brokerOk \in BOOLEAN :
       IF ~is_connected \/ ~brokerOk
       THEN /\ wpc' = [wpc EXCEPT ![w] = "raised"]
            /\ wres' = wres
       ELSE LET r == RedisGet(store, ResultKey(wid[w])) IN
            /\ wres' = [wres EXCEPT ![w] = r]
            /\ wpc' = [wpc EXCEPT ![w] = IF r # Nil THEN "delete" ELSE "sleep"]
  /\ contacted' = TRUE
  /\ UNCHANGED <<now, is_connected, store, written, published, inbox, wvia, wid, wstart>>
  /\ UNCHANGED <<minerVars, wagerVars, clientVars, statsVars, extraVars>>

\* self.redis_client.delete(...); return result
WaitDelete(w) ==
  /\ wpc[w] = "delete"
  /\ \E brokerOk \in BOOLEAN :
       IF brokerOk
       THEN /\ store' = RedisDelete(store, ResultKey(wid[w]))
            /\ wpc' = [wpc EXCEPT ![w] = "returned"]
       ELSE /\ store' = store
            /\ wpc' = [wpc EXCEPT ![w] = "raised"]
  /\ UNCHANGED <<now, is_connected, contacted, written, published, inbox, wvia, wid, wstart, wres>>
  /\ UNCHANGED <<minerVars, wagerVars, clientVars, statsVars, extraVars>>

\* time.sleep(0.1)
WaitSleep(w) ==
  /\ wpc[w] = "sleep"
  /\ wpc' = [wpc EXCEPT ![w] = "loop"]
  /\ UNCHANGED <<now, is_connected, contacted, store, written, published, inbox, wvia, wid, wstart, wres>>
  /\ UNCHANGED <<minerVars, wagerVars, clientVars, statsVars, extraVars>>

WaitStep(w) == WaitLoop(w) \/ WaitGet(w) \/ WaitDelete(w) \/ WaitSleep(w)

(* ------------------------- execute_db_operation ------------------------ *)
\* Not connected: return None. Otherwise a fresh uuid4, publish on
\* 'db_operations' (publish reports a broker error by returning False, which
\* is not looked at), then wait_for_result(message_id).
ExecuteDbOperation(w) ==
  /\ wpc[w] = "idle"
  /\ IF ~is_connected
     THEN /\ wpc' = [wpc EXCEPT ![w] = "done"]
          /\ wvia' = [wvia EXCEPT ![w] = "exec"]
          /\ wres' = [wres EXCEPT ![w] = Nil]
          /\ UNCHANGED <<contacted, published, inbox, wid, wstart>>
     ELSE /\ now + DefaultTimeout <= MaxTime
          /\ contacted' = TRUE
          /\ \E m \in MsgIds :
               /\ \A v \in Waiters : wid[v] # m
               /\ \E brokerOk \in BOOLEAN :
                    LET text == JsonDumps(DbOpMessage(m)) IN
                    /\ published' = IF brokerOk
                                    THEN published \cup {[chan |-> DbChannel, data |-> text]}
                                    ELSE published
                    /\ inbox' = IF brokerOk THEN Deliver(inbox, DbChannel, text) ELSE inbox
               /\ BeginWait(w, m, "exec")
          /\ wres' = wres
  /\ UNCHANGED <<now, is_connected, store, written>>
  /\ UNCHANGED <<minerVars, wagerVars, clientVars, statsVars, extraVars>>

\* The return of execute_db_operation without its except clause: an exception
\* of wait_for_result or of json.loads leaves the call.
ExecuteReturnUncaught(w) ==
  /\ wvia[w] = "exec"
  /\ wpc[w] \in {"returned", "timeout", "raised"}
  /\ wres' = [wres EXCEPT ![w] = IF wpc[w] = "returned" /\ IsJson(wres[w]) THEN JsonLoads(wres[w]) ELSE @]
  /\ wpc' = [wpc EXCEPT ![w] = IF wpc[w] = "returned" /\ IsJson(wres[w]) THEN "done" ELSE "escaped"]
  /\ UNCHANGED <<now, is_connected, contacted, store, written, published, inbox, wvia, wid, wstart>>
  /\ UNCHANGED <<minerVars, wagerVars, clientVars, statsVars, extraVars>>

\* return json.loads(result) if result else None; except Exception: return None
ExecuteReturn(w) ==
  /\ wvia[w] = "exec"
  /\ wpc[w] \in {"returned", "timeout", "raised"}
  /\ wres' = [wres EXCEPT ![w] =
                IF wpc[w] = "returned" /\ IsJson(wres[w]) THEN JsonLoads(wres[w]) ELSE Nil]
  /\ wpc' = [wpc EXCEPT ![w] = "done"]
  /\ UNCHANGED <<now, is_connected, contacted, store, written, published, inbox, wvia, wid, wstart>>
  /\ UNCHANGED <<minerVars, wagerVars, clientVars, statsVars, extraVars>>

(* -------------------- publish, subscribe, get, set --------------------- *)
\* A test of the connection that never refuses a call.
NotConnectedNever(connected) == FALSE

\* if not self.is_connected
NotConnected(connected) == ~connected

\* What a call that could not be made returns: False from publish and set,
\* None from subscribe and get.
FailureValue(op) == IF op \in {"publish", "set"} THEN [bool |-> FALSE] ELSE Nil

Returned(op, ret) == last_call' = [op |-> op, ret |-> ret]

\* publish(channel, message): False without a connection; otherwise
\* redis_client.publish, True, and False when the call raised.
Publish(chan, text) ==
  /\ IF NotConnected(is_connected)
     THEN /\ Returned("publish", [bool |-> FALSE])
          /\ UNCHANGED <<contacted, published, inbox>>
     ELSE /\ contacted' = TRUE
          /\ \E brokerOk \in BOOLEAN :
               IF brokerOk
               THEN /\ published' = published \cup {[chan |-> chan, data |-> text]}
                    /\ inbox' = Deliver(inbox, chan, text)
                    /\ Returned("publish", [bool |-> TRUE])
               ELSE /\ Returned("publish", [bool |-> FALSE])
                    /\ UNCHANGED <<published, inbox>>
  /\ UNCHANGED <<now, is_connected, store, written, wpc, wvia, wid, wstart, wres>>
  /\ UNCHANGED <<minerVars, wagerVars, statsVars, extraVars>>

\* subscribe(channel): None without a connection; otherwise a pubsub
\* subscribed to the channel, and None when the call raised.
Subscribe(chan) ==
  /\ IF NotConnected(is_connected)
     THEN /\ Returned("subscribe", Nil)
          /\ UNCHANGED contacted
     ELSE /\ contacted' = TRUE
          /\ \E brokerOk \in BOOLEAN :
               Returned("subscribe", IF brokerOk THEN [pubsub |-> chan] ELSE Nil)
  /\ UNCHANGED <<now, is_connected, store, written, published, inbox,
                 wpc, wvia, wid, wstart, wres>>
  /\ UNCHANGED <<minerVars, wagerVars, statsVars, extraVars>>

\* get(key): None without a connection; otherwise redis_client.get(key),
\* and None when the call raised.
Get(key) ==
  /\ IF NotConnected(is_connected)
     THEN /\ Returned("get", Nil)
          /\ UNCHANGED contacted
     ELSE /\ contacted' = TRUE
          /\ \E brokerOk \in BOOLEAN :
               Returned("get", IF brokerOk THEN RedisGet(store, key) ELSE Nil)
  /\ UNCHANGED <<now, is_connected, store, written, published, inbox,
                 wpc, wvia, wid, wstart, wres>>
  /\ UNCHANGED <<minerVars, wagerVars, statsVars, extraVars>>

\* set(key, value): False without a connection; otherwise
\* redis_client.set(key, value), True, and False when the call raised.
Set(key, value) ==
  /\ IF NotConnected(is_connected)
     THEN /\ Returned("set", [bool |-> FALSE])
          /\ UNCHANGED <<contacted, store>>
     ELSE /\ contacted' = TRUE
          /\ \E brokerOk \in BOOLEAN :
               IF brokerOk
               THEN /\ store' = RedisSet(store, key, value, NoExpiry)
                    /\ Returned("set", [bool |-> TRUE])
               ELSE /\ Returned("set", [bool |-> FALSE])
                    /\ UNCHANGED store
  /\ UNCHANGED <<now, is_connected, written, published, inbox,
                 wpc, wvia, wid, wstart, wres>>
  /\ UNCHANGED <<minerVars, wagerVars, statsVars, extraVars>>

(* ------------------------------ environment ---------------------------- *)
\* The process serving 'db_operations' stores the result of request m, once,
\* under result:<m> with a finite time-to-live.
Payload(m) == IF m = "id2" THEN NotJson ELSE JsonDumps([rows |-> m])

StoreResult(m) ==
  /\ m \notin written
  /\ written' = written \cup {m}
  /\ store' = RedisSet(store, ResultKey(m), Payload(m), FiniteExpiry)
  /\ UNCHANGED <<now, is_connected, contacted, published, inbox, wpc, wvia, wid, wstart, wres>>
  /\ UNCHANGED <<minerVars, wagerVars, clientVars, statsVars, extraVars>>

\* The broker drops a key when its time-to-live runs out.
Expire ==
  /\ \E e \in store :
       /\ e.ttl = FiniteExpiry
       /\ store' = store \ {e}
  /\ UNCHANGED <<now, is_connected, contacted, written, published, inbox, wpc, wvia, wid, wstart, wres>>
  /\ UNCHANGED <<minerVars, wagerVars, clientVars, statsVars, extraVars>>

Tick ==
  /\ now < MaxTime
  /\ now' = now + 1
  /\ UNCHANGED <<is_connected, contacted, store, written, published, inbox, wpc, wvia, wid, wstart, wres>>
  /\ UNCHANGED <<minerVars, wagerVars, clientVars, statsVars, extraVars>>


(* ============================ the miner ================================ *)
Threads == {"axon", "listener"}

\* A game record: its mutable fields (odds, status), one value for both, and
\* a volatile field, the time the record was polled.
Games == {"g1", "g2"}
Odds == {"oddsA", "oddsB"}
Polled == {"t1", "t2"}
GameRecords == [odds : Odds, polled : Polled]

EmptyDict == [g \in {} |-> Nil]
Restrict(d, S) == [g \in S |-> d[g]]
\* dict.update: entries of new overwrite, the others stay.
Update(d, new) ==
  [g \in DOMAIN d \cup DOMAIN new |-> IF g \in DOMAIN new THEN new[g] ELSE d[g]]

(* ------------------------------ metagraph ------------------------------ *)
MetagraphHotkeys == {"validator", "lowstake", "nopermit"}
validator_permit == [h \in MetagraphHotkeys |-> h # "nopermit"]
Stake == [h \in MetagraphHotkeys |-> IF h = "validator" THEN 1000 ELSE 999]
validator_min_stake == 1000
\* A synapse built by the listener carries no caller: dendrite.hotkey is None.
NoHotkey == "None"
Hotkeys == MetagraphHotkeys \cup {"stranger"}

\* whitelisted_hotkeys = []
CheckWhitelist(h) == h \in {}

\* blacklist(synapse)[1], by the return statement that produced it.
BlacklistReason(h) ==
  IF CheckWhitelist(h) THEN "Accepted whitelisted hotkey"
  ELSE IF h \notin MetagraphHotkeys THEN "was not found from metagraph.hotkeys"
  ELSE IF ~validator_permit[h] THEN "is not a validator"
  ELSE IF Stake[h] < validator_min_stake THEN "has insufficient stake"
  ELSE "Accepted hotkey"

\* A stake test that also turns away a stake equal to the minimum.
BlacklistStrict(h) ==
  IF CheckWhitelist(h) THEN FALSE
  ELSE IF h \notin MetagraphHotkeys THEN TRUE
  ELSE IF ~validator_permit[h] THEN TRUE
  ELSE IF Stake[h] <= validator_min_stake THEN TRUE
  ELSE FALSE

\* blacklist(synapse)[0]
Blacklist(h) ==
  IF CheckWhitelist(h) THEN FALSE
  ELSE IF h \notin MetagraphHotkeys THEN TRUE
  ELSE IF ~validator_permit[h] THEN TRUE
  ELSE IF Stake[h] < validator_min_stake THEN TRUE
  ELSE FALSE

\* What list.index raises for a value that is not in the list.
NotInList == [error |-> "ValueError"]

MaxPriority == 10000000

\* A priority that is the maximum for every caller.
PriorityFlat(h) == MaxPriority

\* priority(synapse): the maximum for a whitelisted caller, otherwise the
\* stake of the caller's uid; metagraph.hotkeys.index raises for a hotkey
\* that is not in the metagraph.
Priority(h) ==
  IF CheckWhitelist(h) THEN MaxPriority
  ELSE IF h \notin MetagraphHotkeys THEN NotInList
  ELSE Stake[h]

(* ----------------------------- CacheManager ---------------------------- *)
\* A hash of the whole record, volatile fields included.
FingerprintWhole(rec) == <<"hash", rec>>

\* The fingerprint of a record: a hash of its mutable fields.
Fingerprint(rec) == <<"hash", rec.odds>>

\* A filter that reports the games never seen only.
FilterAbsentOnly(fps, batch) ==
  Restrict(batch, {g \in DOMAIN batch : g \notin DOMAIN fps})

\* filter_changed_games: the records whose fingerprint is absent or differs ...
FilterChanged(fps, batch) ==
  Restrict(batch, {g \in DOMAIN batch :
                     g \notin DOMAIN fps \/ fps[g] # Fingerprint(batch[g])})

\* A filter that stores nothing.
StoreNothing(fps, batch) == fps

\* ... and the stored fingerprints after the call.
StoreFingerprints(fps, batch) ==
  Update(fps, [g \in DOMAIN FilterChanged(fps, batch) |-> Fingerprint(batch[g])])

\* get_cached_predictions / update_cached_predictions
LastOutputs(cache) == cache
MergeReplaces(cache, new) == new
MergeOutputs(cache, new) == Update(cache, new)

(* ------------------------- prediction handlers ------------------------- *)
\* process_games + process_predictions on the changed games: a prediction
\* for those of them the miner has predicted.
Predict(g, rec) == [game |-> g, odds |-> rec.odds]
Compute(games, made) == [g \in made |-> Predict(g, games[g])]

(* ------------------------------- forward ------------------------------- *)
\* _clean_synapse
CleanSynapse(s) ==
  [s EXCEPT !.gamedata_dict = Nil, !.prediction_dict = Nil, !.synapse_type = "error"]

InitSynapse ==
  [hotkey |-> NoHotkey, gamedata_dict |-> EmptyDict, prediction_dict |-> Nil,
   synapse_type |-> "request"]

\* The locals of a call of forward() end with the call.
Forget(t) ==
  /\ fpc' = [fpc EXCEPT ![t] = "idle"]
  /\ sm_calls' = [sm_calls EXCEPT ![t] = <<>>]
  /\ syn' = [syn EXCEPT ![t] = InitSynapse]
  /\ changed' = [changed EXCEPT ![t] = EmptyDict]
  /\ recent' = [recent EXCEPT ![t] = EmptyDict]
  /\ fret' = [fret EXCEPT ![t] = "pending"]

\* forward() returns value to its caller, which holds the synapse s.
Return(t, s, value) ==
  /\ syn' = [syn EXCEPT ![t] = s]
  /\ fret' = [fret EXCEPT ![t] = value]
  /\ fpc' = [fpc EXCEPT ![t] = "returned"]
  /\ changed' = [changed EXCEPT ![t] = EmptyDict]
  /\ recent' = [recent EXCEPT ![t] = EmptyDict]

\* forward(synapse) up to and including filter_changed_games.
ForwardEnter(t, h, batch) ==
  /\ syn' = [syn EXCEPT ![t] = [hotkey |-> h, gamedata_dict |-> batch,
                                prediction_dict |-> Nil, synapse_type |-> "request"]]
  /\ changed' = [changed EXCEPT ![t] = FilterChanged(fingerprints, batch)]
  /\ fingerprints' = StoreFingerprints(fingerprints, batch)
  /\ recent' = [recent EXCEPT ![t] = EmptyDict]
  /\ fret' = [fret EXCEPT ![t] = "pending"]
  /\ fpc' = [fpc EXCEPT ![t] = "compute"]

\* if not changed_games (line 150), and a test that never takes the cached
\* branch.
NothingChangedNever(changed_games) == FALSE

NothingChanged(changed_games) == DOMAIN changed_games = {}

\* Lines 150-165: cached predictions when nothing changed, else compute and
\* update the cache; an empty result returns the cleaned synapse, and so
\* does an exception of the handlers.
ForwardCompute(t) ==
  /\ fpc[t] = "compute"
  /\ IF NothingChanged(changed[t])
     THEN /\ cached_predictions' = cached_predictions
          /\ IF DOMAIN LastOutputs(cached_predictions) = {}
             THEN Return(t, CleanSynapse(syn[t]), "synapse")
             ELSE /\ recent' = [recent EXCEPT ![t] = LastOutputs(cached_predictions)]
                  /\ fpc' = [fpc EXCEPT ![t] = "stats"]
                  /\ UNCHANGED <<syn, fret, changed>>
     ELSE \/ /\ Return(t, CleanSynapse(syn[t]), "synapse")
             /\ UNCHANGED cached_predictions
          \/ \E made \in SUBSET DOMAIN changed[t] :
               /\ cached_predictions' = MergeOutputs(cached_predictions, Compute(changed[t], made))
               /\ IF made = {}
                  THEN Return(t, CleanSynapse(syn[t]), "synapse")
                  ELSE /\ recent' = [recent EXCEPT ![t] = Compute(changed[t], made)]
                       /\ fpc' = [fpc EXCEPT ![t] = "stats"]
                       /\ UNCHANGED <<syn, fret, changed>>
  /\ UNCHANGED <<lpc, ldata, fingerprints, stats, served, sent, priority, sm_calls>>
  /\ UNCHANGED <<bridgeVars, wagerVars, clientVars, statsVars, extraVars>>

\* The calls lines 167-172 make on the state manager: the update when there
\* were changes, then, unless the update raised, the periodic update.
StatsCalls(has_changes, applyOk) ==
  (IF has_changes THEN <<"update_stats_from_predictions">> ELSE <<>>)
    \o (IF has_changes /\ ~applyOk THEN <<>> ELSE <<"periodic_db_update">>)

\* Lines 167-187: update_stats_from_predictions when there were changes,
\* periodic_db_update (throttled: it persists or not), then the synapse is
\* filled in and the function ends without a return statement. An exception
\* of either call returns the cleaned synapse.
ForwardStats(t) ==
  /\ fpc[t] = "stats"
  /\ \E applyOk \in BOOLEAN, persistOk \in BOOLEAN, flush \in BOOLEAN :
       LET applied == IF DOMAIN changed[t] # {} /\ applyOk
                      THEN [applied |-> stats.applied + 1, dirty |-> TRUE] ELSE stats
           failed == (DOMAIN changed[t] # {} /\ ~applyOk) \/ ~persistOk
       IN
       /\ sm_calls' = [sm_calls EXCEPT ![t] = StatsCalls(DOMAIN changed[t] # {}, applyOk)]
       /\ stats' = IF ~failed /\ flush THEN [applied EXCEPT !.dirty = FALSE]
                   ELSE applied
       /\ IF failed
          THEN Return(t, CleanSynapse(syn[t]), "synapse")
          ELSE Return(t, [syn[t] EXCEPT !.prediction_dict = recent[t],
                                        !.gamedata_dict = Nil,
                                        !.synapse_type = "prediction"], "None")
  /\ UNCHANGED <<lpc, ldata, fingerprints, cached_predictions, served, sent, priority>>
  /\ UNCHANGED <<bridgeVars, wagerVars, clientVars, statsVars, extraVars>>

(* -------------------------------- axon --------------------------------- *)
\* The axon calls blacklist() and, for an accepted caller, priority() and
\* forward().
AxonRequest(h, batch) ==
  /\ fpc["axon"] = "idle"
  /\ served + sent < MaxCalls
  /\ served' = served + 1
  /\ IF Blacklist(h)
     THEN /\ fret' = [fret EXCEPT !["axon"] = "Unauthorized"]
          /\ fpc' = [fpc EXCEPT !["axon"] = "returned"]
          /\ priority' = <<>>
          /\ UNCHANGED <<syn, changed, recent, fingerprints>>
     ELSE /\ priority' = <<Priority(h)>>
          /\ ForwardEnter("axon", h, batch)
  /\ UNCHANGED <<lpc, ldata, cached_predictions, stats, sent, sm_calls>>
  /\ UNCHANGED <<bridgeVars, wagerVars, clientVars, statsVars, extraVars>>

\* The axon has sent the reply (what forward() returned) to the caller.
AxonReply ==
  /\ fpc["axon"] = "returned"
  /\ Forget("axon")
  /\ priority' = <<>>
  /\ UNCHANGED <<lpc, ldata, fingerprints, cached_predictions, stats, served, sent>>
  /\ UNCHANGED <<bridgeVars, wagerVars, clientVars, statsVars, extraVars>>

(* ------------------------------ listener ------------------------------- *)
\* A client of the miner's channel publishes a prediction request.
PredMessage(m, g, rec) == [message_id |-> m, game_id |-> g, game_data |-> rec]

\* What a client may send with correlation id m: a prediction request, a
\* request shaped as execute_db_operation shapes it, or a text that is not JSON.
MinerTexts(m) ==
  {JsonDumps(PredMessage(m, g, rec)) : g \in Games, rec \in GameRecords}
    \cup {JsonDumps(DbOpMessage(m)), NotJson}

\* The correlation id of the n-th message: each message has its own.
FreshId(n) == IF n % 2 = 1 THEN "id1" ELSE "id2"

ClientPublish(text) ==
  /\ lpc # "off"
  /\ served + sent < MaxCalls
  /\ sent' = sent + 1
  /\ inbox' = Deliver(inbox, MinerChannel, text)
  /\ UNCHANGED <<now, is_connected, contacted, store, written, published, wpc, wvia, wid, wstart, wres>>
  /\ UNCHANGED <<wagerVars, clientVars, statsVars, extraVars>>
  /\ UNCHANGED <<lpc, ldata, fpc, syn, changed, recent, fret, fingerprints,
                 cached_predictions, stats, served, priority, sm_calls>>

\* for message in pubsub.listen(): one message taken up to the call of
\* forward(). json.loads of a text that is not JSON and a missing 'game_id'
\* or 'game_data' raise, and the exception ends the thread.
ListenerReceive ==
  /\ lpc = "listen"
  /\ inbox # <<>>
  /\ inbox' = Tail(inbox)
  /\ LET msg == Head(inbox) IN
     IF msg.type # "message"
     THEN UNCHANGED <<lpc, ldata, fpc, syn, changed, recent, fret, fingerprints>>
     ELSE IF ~IsJson(msg.data)
     THEN /\ lpc' = "dead"
          /\ UNCHANGED <<ldata, fpc, syn, changed, recent, fret, fingerprints>>
     ELSE LET data == JsonLoads(msg.data) IN
          /\ ldata' = data
          /\ IF {"game_id", "game_data"} \subseteq DOMAIN data
             THEN /\ lpc' = "forward"
                  /\ ForwardEnter("listener", NoHotkey,
                                  [g \in {data.game_id} |-> data.game_data])
             ELSE /\ lpc' = "dead"
                  /\ UNCHANGED <<fpc, syn, changed, recent, fret, fingerprints>>
  /\ UNCHANGED <<now, is_connected, contacted, store, written, published, wpc, wvia, wid, wstart, wres>>
  /\ UNCHANGED <<wagerVars, clientVars, statsVars, extraVars>>
  /\ UNCHANGED <<cached_predictions, stats, served, sent, priority, sm_calls>>

\* The key the listener stores the result under, and its expiry.
ListenerKey(data) == ResponseKey(data.message_id)
ListenerExpiry == NoExpiry

\* forward() is back in process_prediction_request: result.prediction_dict of
\* None raises; then 'response:<data["message_id"]>' is set (a missing
\* 'message_id' raises). RedisInterface.set swallows a broker error.
ListenerRespond ==
  /\ lpc = "forward"
  /\ fpc["listener"] = "returned"
  /\ Forget("listener")
  /\ ldata' = Nil
  /\ IF fret["listener"] = "None" \/ "message_id" \notin DOMAIN ldata
     THEN /\ lpc' = "dead"
          /\ store' = store
     ELSE /\ lpc' = "listen"
          /\ \E brokerOk \in BOOLEAN :
               store' = IF brokerOk
                        THEN RedisSet(store, ListenerKey(ldata),
                                      JsonDumps([predictions |-> syn["listener"].prediction_dict]),
                                      ListenerExpiry)
                        ELSE store
  /\ UNCHANGED <<now, is_connected, contacted, written, published, inbox, wpc, wvia, wid, wstart, wres>>
  /\ UNCHANGED <<fingerprints, cached_predictions, stats, served, sent, priority>>
  /\ UNCHANGED <<wagerVars, clientVars, statsVars, extraVars>>

(* ===================== the command line client ====================== *)
\* Python floats: the integers in use and nan. Every comparison with nan is
\* false and every sum with nan is nan.
NaN == [nan |-> TRUE, v |-> 0]
Num(n) == [nan |-> FALSE, v |-> n]
FloatAdd(a, b) == IF a.nan \/ b.nan THEN NaN ELSE Num(a.v + b.v)
FloatNeg(a) == IF a.nan THEN NaN ELSE Num(0 - a.v)
FloatSub(a, b) == FloatAdd(a, FloatNeg(b))
FloatLe(a, b) == ~a.nan /\ ~b.nan /\ a.v <= b.v
FloatGt(a, b) == ~a.nan /\ ~b.nan /\ a.v > b.v

\* What the user may type into the wager input.
WagerTexts == {"", "abc", "nan", "-1", "0", " 1 ", "2", "3"}
ValueError == [error |-> "ValueError"]

\* float(self.wager_input.text.strip())
ParseFloat(text) ==
  CASE text = "nan" -> NaN
    [] text = "-1" -> Num(0 - 1)
    [] text = "0" -> Num(0)
    [] text = " 1 " -> Num(1)
    [] text = "2" -> Num(2)
    [] text = "3" -> Num(3)
    [] OTHER -> ValueError

(* -------------------------- MinerStateManager -------------------------- *)
\* No date: no reset is pending.
NoDate == 0 - 1

\* The fields of the stats a daily reset leaves alone.
LifetimeFields == {"lifetime_wager", "lifetime_predictions", "lifetime_wins",
                   "lifetime_losses", "miner_rank", "current_incentive"}

\* A reset that also zeroes the lifetime wager total.
ResetClearsLifetime(s, date) ==
  [s EXCEPT !.miner_cash = Num(DailyCash), !.daily_wager = Num(0),
            !.lifetime_wager = Num(0), !.reset_pending = date]

\* A reset that hands out the day's cash on top of the cash held.
ResetAddsCash(s, date) ==
  [s EXCEPT !.miner_cash = FloatAdd(@, Num(DailyCash)), !.daily_wager = Num(0),
            !.reset_pending = date]

\* The reset transition Normal -> ResetPending: the daily counters are
\* zeroed and the day's cash is handed out.
ResetDaily(s, date) ==
  [s EXCEPT !.miner_cash = Num(DailyCash), !.daily_wager = Num(0),
            !.reset_pending = date]

\* A reconcile that resets whenever no reset of the day has been persisted
\* or is pending, and on every call of a day while one is pending; and one
\* that records the date of a reset whose persist failed.
ReconcileOncePerCall(s, date, persistOk) ==
  IF s.last_reset <= date
  THEN IF persistOk
       THEN [ResetDaily(s, date) EXCEPT !.last_reset = date, !.reset_pending = NoDate]
       ELSE ResetDaily(s, date)
  ELSE s

ReconcileRecordsAnyway(s, date, persistOk) ==
  IF s.last_reset < date
  THEN [ResetDaily(s, date) EXCEPT !.last_reset = date, !.reset_pending = NoDate]
  ELSE s

\* reconcile_state: when the stored last-reset date precedes the current
\* date, the reset transition, then its persist: a successful persist records
\* the new last-reset date (ResetDone), a failed one leaves the reset pending.
Reconcile(s, date, persistOk) ==
  IF s.last_reset < date
  THEN IF persistOk
       THEN [ResetDaily(s, date) EXCEPT !.last_reset = date, !.reset_pending = NoDate]
       ELSE ResetDaily(s, date)
  ELSE s

\* The state of the reset state machine on a date.
ResetState(s, date) ==
  IF s.last_reset = date THEN "ResetDone"
  ELSE IF s.reset_pending = date THEN "ResetPending"
  ELSE "Normal"

\* update_on_prediction({'wager': wager, ...}): the effects of a prediction
\* on the stats: the wager sum, the prediction count and the cash debit.
UpdateOnPrediction(s, wager) ==
  [s EXCEPT !.miner_cash = FloatSub(@, wager),
            !.daily_wager = FloatAdd(@, wager),
            !.lifetime_wager = FloatAdd(@, wager),
            !.lifetime_predictions = @ + 1]

(* ------------------------------ Application ---------------------------- *)
\* reload_miner_stats: reconcile_state, then miner_cash is read from the stats.
ReloadMinerStats(s, persistOk) ==
  /\ state' = Reconcile(s, today, persistOk)
  /\ miner_cash' = Reconcile(s, today, persistOk).miner_cash

\* update_miner_cash(amount): miner_cash += amount, which the reload at its
\* end overwrites; update_on_prediction is handed amount as the wager.
UpdateMinerCash(amount, persistOk) ==
  ReloadMinerStats(UpdateOnPrediction(state, amount), persistOk)

\* GamesList.handle_enter on a game: WagerConfirm(app, game, self) reloads the
\* stats and keeps the cash of that moment; change_view shows the view.
OpenWager(persistOk) ==
  /\ current_view = "GamesList"
  /\ ReloadMinerStats(state, persistOk)
  /\ view_cash' = Reconcile(state, today, persistOk).miner_cash
  /\ wager_text' = ""
  /\ confirmation_message' = ""
  /\ current_view' = "WagerConfirm"
  /\ UNCHANGED <<today, predictions, stored>>
  /\ UNCHANGED <<bridgeVars, minerVars, clientVars, statsVars, extraVars>>

\* The user types an amount and presses enter: handle_wager_input_enter,
\* whose update_text_area reloads the stats and leaves the view's cash alone.
TypeWager(text, persistOk) ==
  /\ current_view = "WagerConfirm"
  /\ wager_text' = text
  /\ ReloadMinerStats(state, persistOk)
  /\ UNCHANGED <<today, current_view, view_cash, confirmation_message, predictions, stored>>
  /\ UNCHANGED <<bridgeVars, minerVars, clientVars, statsVars, extraVars>>

\* WagerConfirm.handle_enter on "Confirm Wager". handlerOk: the call of
\* PredictionsHandler.add_prediction succeeds, else its exception, which is
\* no ValueError, leaves the handler; viewOk: the change to the games list
\* succeeds, else the view stays and shows the error; persistOk: the store
\* accepts the persist of a reset.
ConfirmWager(handlerOk, viewOk, persistOk) ==
  /\ current_view = "WagerConfirm"
  /\ Len(predictions) < MaxWagers
  /\ LET wager_amount == ParseFloat(wager_text) IN
     IF wager_amount = ValueError
     THEN /\ confirmation_message' = "could not convert string to float"
          /\ ReloadMinerStats(state, persistOk)
          /\ UNCHANGED <<current_view, view_cash, wager_text, predictions, stored>>
     ELSE IF FloatLe(wager_amount, Num(0)) \/ FloatGt(wager_amount, view_cash)
     THEN /\ confirmation_message' = "Invalid wager amount"
          /\ ReloadMinerStats(state, persistOk)
          /\ UNCHANGED <<current_view, view_cash, wager_text, predictions, stored>>
     ELSE /\ predictions' = Append(predictions, wager_amount)
          /\ IF ~handlerOk
             THEN UNCHANGED <<state, miner_cash, current_view, view_cash, wager_text,
                              confirmation_message, stored>>
             ELSE /\ stored' = Append(stored, wager_amount)
                  /\ UpdateMinerCash(FloatNeg(wager_amount), persistOk)
                  /\ IF viewOk
                     THEN /\ current_view' = "GamesList"
                          /\ view_cash' = Nil
                          /\ wager_text' = ""
                          /\ confirmation_message' = ""
                     ELSE /\ confirmation_message' = "Error submitting wager"
                          /\ UNCHANGED <<current_view, view_cash, wager_text>>
  /\ UNCHANGED today
  /\ UNCHANGED <<bridgeVars, minerVars, clientVars, statsVars, extraVars>>

\* WagerConfirm.handle_enter on "Go Back": change_view(previous_view).
GoBack(persistOk) ==
  /\ current_view = "WagerConfirm"
  /\ ReloadMinerStats(state, persistOk)
  /\ current_view' = "GamesList"
  /\ view_cash' = Nil
  /\ wager_text' = ""
  /\ confirmation_message' = ""
  /\ UNCHANGED <<today, predictions, stored>>
  /\ UNCHANGED <<bridgeVars, minerVars, clientVars, statsVars, extraVars>>

\* BettensorMiner.start: reset_daily_cash, the reset transition of the
\* identity's stats made when the serving process starts.
MinerStart(persistOk) ==
  /\ state' = Reconcile(state, today, persistOk)
  /\ UNCHANGED <<today, miner_cash, current_view, view_cash, wager_text,
                 confirmation_message, predictions, stored>>
  /\ UNCHANGED <<bridgeVars, minerVars, clientVars, statsVars, extraVars>>

\* Midnight (UTC) passes.
NextDay ==
  /\ today < MaxDay
  /\ today' = today + 1
  /\ UNCHANGED <<state, miner_cash, current_view, view_cash, wager_text,
                 confirmation_message, predictions, stored>>
  /\ UNCHANGED <<bridgeVars, minerVars, clientVars, statsVars, extraVars>>

(* -------------------- MinerStateManager: persistence ------------------- *)
\* The predictions a delta can hold, and the wager of each.
PredIds == {"p1", "p2"}
PredWager == [p \in PredIds |-> IF p = "p1" THEN 1 ELSE 2]
Deltas == SUBSET PredIds

RECURSIVE SumWager(_)
SumWager(d) ==
  IF d = {} THEN 0
  ELSE LET p == CHOOSE q \in d : TRUE IN PredWager[p] + SumWager(d \ {p})

\* Totals: the predictions counted, their number and the sum of their wagers.
NoTotals == [seen |-> {}, lifetime_predictions |-> 0, lifetime_wager |-> 0]
DeltaTotals(d) ==
  [seen |-> d, lifetime_predictions |-> Cardinality(d), lifetime_wager |-> SumWager(d)]
AddTotals(a, b) ==
  [seen |-> a.seen \cup b.seen,
   lifetime_predictions |-> a.lifetime_predictions + b.lifetime_predictions,
   lifetime_wager |-> a.lifetime_wager + b.lifetime_wager]

\* No write has been made yet.
NoTime == 0 - 1
\* The configured minimum interval between two periodic writes.
MinInterval == 2

\* An update that counts every prediction handed to it.
UpdateCountsAgain(m, d) == [m EXCEPT !.buffer = AddTotals(@, DeltaTotals(d))]

\* update_stats_from_predictions: the effects of the predictions not counted
\* yet are added to the buffered totals.
UpdateStatsFromPredictions(m, d) ==
  LET new == d \ (m.persisted.seen \cup m.buffer.seen) IN
  [m EXCEPT !.buffer = AddTotals(@, DeltaTotals(new))]

\* The buffered totals are written to the store at time t.
WriteOut(m, t) ==
  [m EXCEPT !.persisted = AddTotals(m.persisted, m.buffer), !.buffer = NoTotals,
            !.last_write = t, !.writes = m.writes + 1]

Throttled(m, t) == m.last_write # NoTime /\ t - m.last_write < MinInterval

\* A flush that keeps to the minimum interval.
SaveStateThrottled(m, t, persistOk) ==
  IF ~Throttled(m, t) /\ persistOk THEN WriteOut(m, t) ELSE m

\* save_state: the flush; it writes whenever the store accepts the write.
SaveState(m, t, persistOk) == IF persistOk THEN WriteOut(m, t) ELSE m

\* A periodic update that writes at every call.
PeriodicUnthrottled(m, t, persistOk) == SaveState(m, t, persistOk)

\* periodic_db_update: writes when the minimum interval has passed since the
\* last write and the store accepts the write.
PeriodicDbUpdate(m, t, persistOk) ==
  IF ~Throttled(m, t) /\ persistOk THEN WriteOut(m, t) ELSE m

\* get_stats after reconcile_state: the persisted totals with the buffered
\* ones applied.
GetStats(m) == AddTotals(m.persisted, m.buffer)

\* Lines 167-172 of forward(): update_stats_from_predictions when games
\* changed (d is not empty), then periodic_db_update; an exception of the
\* first skips the second. stop() does not stop the axon: requests are
\* served until the process exits.
ForwardPersist(d, applyOk, persistOk) ==
  /\ manager.owner = "miner"
  /\ phase \in {"running", "stopped"}
  /\ Len(applied_log) < MaxCalls
  /\ applied_log' = Append(applied_log, [delta |-> d, phase |-> phase, applied |-> applyOk])
  /\ IF d # {} /\ ~applyOk
     THEN UNCHANGED <<manager, pwrites>>
     ELSE LET m == IF d # {} THEN UpdateStatsFromPredictions(manager, d) ELSE manager
              w == PeriodicDbUpdate(m, now, persistOk)
          IN /\ manager' = w
             /\ pwrites' = IF w.writes # m.writes THEN Append(pwrites, now) ELSE pwrites
  /\ UNCHANGED phase
  /\ UNCHANGED <<bridgeVars, minerVars, wagerVars, clientVars, extraVars>>

\* stop(), lines 211-215: save_state; an exception of it leaves stop().
Stop(persistOk, raises) ==
  /\ manager.owner = "miner"
  /\ phase = "running"
  /\ manager' = SaveState(manager, now, persistOk)
  /\ phase' = IF ~persistOk /\ raises THEN "raised" ELSE "stopped"
  /\ UNCHANGED <<applied_log, pwrites>>
  /\ UNCHANGED <<bridgeVars, minerVars, wagerVars, clientVars, extraVars>>

\* signal_handler, lines 217-221: stop(), then sys.exit(0); an exception of
\* stop() leaves the handler before the exit.
SignalHandler(persistOk, raises) ==
  /\ manager.owner = "miner"
  /\ phase = "running"
  /\ manager' = SaveState(manager, now, persistOk)
  /\ phase' = IF ~persistOk /\ raises THEN "raised" ELSE "exited"
  /\ UNCHANGED <<applied_log, pwrites>>
  /\ UNCHANGED <<bridgeVars, minerVars, wagerVars, clientVars, extraVars>>

\* Application.add_prediction, cli.py lines 447-457: update_on_prediction adds
\* the effects of the new prediction to the buffered totals; the client never
\* calls periodic_db_update.
AddPrediction(p, applyOk) ==
  /\ manager.owner = "cli"
  /\ phase = "running"
  /\ Len(applied_log) < MaxCalls
  /\ applied_log' = Append(applied_log, [delta |-> {p}, phase |-> phase, applied |-> applyOk])
  /\ manager' = IF applyOk THEN UpdateStatsFromPredictions(manager, {p}) ELSE manager
  /\ UNCHANGED <<phase, pwrites>>
  /\ UNCHANGED <<bridgeVars, minerVars, wagerVars, clientVars, extraVars>>

\* Application.quit, cli.py lines 214-240: save_state inside try/except, then
\* the application exits whatever save_state did.
Quit(persistOk) ==
  /\ manager.owner = "cli"
  /\ phase = "running"
  /\ manager' = SaveState(manager, now, persistOk)
  /\ phase' = "exited"
  /\ UNCHANGED <<applied_log, pwrites>>
  /\ UNCHANGED <<bridgeVars, minerVars, wagerVars, clientVars, extraVars>>

(* ------------------------------ cli views ------------------------------ *)
predictions_per_page == 25
games_per_page == 25
AllSports == "All Sports"

\* What reload_data() finds: no game and no prediction; a few games, one of
\* them already started; more games and predictions than a page holds.
DataSets == {"none", "few", "many"}
AppGames(d) ==
  CASE d = "none" -> {}
    [] d = "few" -> {[id |-> 1, sport |-> "NFL", start |-> 2],
                     [id |-> 2, sport |-> "MLB", start |-> 1],
                     [id |-> 3, sport |-> "NHL", start |-> 0 - 1]}
    [] d = "many" -> {[id |-> i, sport |-> "NFL", start |-> i] : i \in 1..(games_per_page + 1)}
                       \cup {[id |-> games_per_page + 2, sport |-> "MLB",
                              start |-> games_per_page + 2]}
Predictions(d) ==
  CASE d = "none" -> 0
    [] d = "few" -> 1
    [] d = "many" -> predictions_per_page + 1

\* eventStartDate > current_time, with current_time = 0.
Upcoming(g) == g.start > 0

\* sorted(..., key=eventStartDate), as the sequence of the games' ids.
RECURSIVE SortedByStart(_)
SortedByStart(S) ==
  IF S = {} THEN <<>>
  ELSE LET first == CHOOSE g \in S : \A h \in S : g.start <= h.start
       IN  <<first.id>> \o SortedByStart(S \ {first})

\* update_sorted_games, lines 895-900: current_filter is not looked at.
UpdateSortedGames(d, current_filter) ==
  SortedByStart({g \in AppGames(d) : Upcoming(g)})

\* sorted(set(game.sport ...)): the sports in alphabetical order.
SportOrder == <<"MLB", "NFL", "NHL">>
AvailableSports(d) ==
  LET IsThere(sp) == \E g \in AppGames(d) : g.sport = sp
  IN  SelectSeq(SportOrder, IsThere)

IndexOf(seq, x) == CHOOSE i \in DOMAIN seq : seq[i] = x

\* update_total_pages: max(1, (n + per_page - 1) // per_page)
TotalPages(n, per) ==
  LET pages == (n + per - 1) \div per IN IF pages > 1 THEN pages ELSE 1

\* The number of rows of page `page`.
PageLen(n, page, per) ==
  LET rest == n - page * per
  IN  IF rest < 0 THEN 0 ELSE IF rest < per THEN rest ELSE per

\* len(self.options) after update_options of PredictionsList and of GamesList.
PredictionsOptions(d, page) == PageLen(Predictions(d), page, predictions_per_page) + 1
GamesOptions(sorted, page) ==
  IF Len(sorted) = 0 THEN 3 ELSE PageLen(Len(sorted), page, games_per_page) + 2

\* InteractiveTable.__init__ and MainMenu.__init__: four options, the last
\* of them "Quit".
MainMenuView(d) ==
  [view |-> "MainMenu", selected_index |-> 0, n_options |-> 4, current_page |-> 0,
   total_pages |-> 1, current_filter |-> AllSports, sorted_games |-> <<>>,
   data |-> d, previous |-> Nil, input_focused |-> FALSE, running |-> TRUE]

\* PredictionsList.__init__, lines 675-687: the cursor is set to
\* len(self.options).
PredictionsListView(d) ==
  [MainMenuView(d) EXCEPT
     !.view = "PredictionsList",
     !.total_pages = TotalPages(Predictions(d), predictions_per_page),
     !.n_options = PredictionsOptions(d, 0),
     !.selected_index = PredictionsOptions(d, 0)]

\* GamesList.__init__, lines 802-824.
GamesListView(d) ==
  LET sorted == UpdateSortedGames(d, AllSports) IN
  [MainMenuView(d) EXCEPT
     !.view = "GamesList",
     !.sorted_games = sorted,
     !.total_pages = TotalPages(Len(sorted), games_per_page),
     !.n_options = GamesOptions(sorted, 0)]

\* WagerConfirm.__init__, lines 1058-1092: four options, the view it came
\* from is kept.
WagerConfirmView(t) ==
  [MainMenuView(t.data) EXCEPT !.view = "WagerConfirm", !.previous = t]

\* cycle_filter, lines 981-998.
CycleFilter(t) ==
  LET sports == AvailableSports(t.data)
      current_index == IF t.current_filter # AllSports
                       THEN IndexOf(sports, t.current_filter) - 1 ELSE 0 - 1
      next_index == (current_index + 1) % (Len(sports) + 1)
      filter == IF next_index < Len(sports) THEN sports[next_index + 1] ELSE AllSports
      sorted == UpdateSortedGames(t.data, filter)
  IN  [t EXCEPT !.current_filter = filter,
                !.sorted_games = sorted,
                !.total_pages = TotalPages(Len(sorted), games_per_page),
                !.current_page = 0,
                !.selected_index = 0,
                !.n_options = GamesOptions(sorted, 0)]

\* move_up of every view: lines 518-528, 652-661, 1000-1010, 1165-1175.
MoveUp ==
  /\ table.running
  /\ table' = IF table.selected_index > 0
              THEN [table EXCEPT !.selected_index = @ - 1] ELSE table
  /\ UNCHANGED <<bridgeVars, minerVars, wagerVars, clientVars, statsVars, construction, incentive>>

\* move_down of every view: lines 530-540, 663-672, 1012-1022, 1177-1187.
MoveDown ==
  /\ table.running
  /\ table' = IF table.selected_index < table.n_options - 1
              THEN [table EXCEPT !.selected_index = @ + 1] ELSE table
  /\ UNCHANGED <<bridgeVars, minerVars, wagerVars, clientVars, statsVars, construction, incentive>>

\* The page `page` of a list view: PredictionsList keeps the cursor within
\* the options (lines 776-788), GamesList moves it to the top (1024-1052).
TurnPage(t, page) ==
  IF t.view = "PredictionsList"
  THEN LET n == PredictionsOptions(t.data, page) IN
       [t EXCEPT !.current_page = page, !.n_options = n,
                 !.selected_index = IF @ < n - 1 THEN @ ELSE n - 1]
  ELSE [t EXCEPT !.current_page = page, !.selected_index = 0,
                 !.n_options = GamesOptions(t.sorted_games, page)]

\* The 'left' key, lines 190-193.
MoveLeft ==
  /\ table.running
  /\ table.view \in {"PredictionsList", "GamesList"}
  /\ table' = IF table.current_page > 0 THEN TurnPage(table, table.current_page - 1) ELSE table
  /\ UNCHANGED <<bridgeVars, minerVars, wagerVars, clientVars, statsVars, construction, incentive>>

\* The 'right' key, lines 195-198.
MoveRight ==
  /\ table.running
  /\ table.view \in {"PredictionsList", "GamesList"}
  /\ table' = IF table.current_page < table.total_pages - 1
              THEN TurnPage(table, table.current_page + 1) ELSE table
  /\ UNCHANGED <<bridgeVars, minerVars, wagerVars, clientVars, statsVars, construction, incentive>>

\* handle_enter of the current view. MainMenu (630-650): the two lists, the
\* restart with the next miner, quit; PredictionsList.__init__ raises in
\* update_options when there is no prediction (max() of one int), and the
\* view stays. PredictionsList (769-774) and GamesList (960-979): the last
\* option goes back; GamesList: the one before it cycles the filter, a game
\* row opens WagerConfirm. WagerConfirm (1121-1163): team, input focus,
\* confirmation (a valid wager opens a new GamesList), back to the view kept.
HandleEnter(valid) ==
  /\ table.running
  /\ valid \/ (table.view = "WagerConfirm" /\ table.selected_index = 2)
  /\ LET i == table.selected_index
         n == table.n_options
         d == table.data
     IN  table' =
           CASE table.view = "MainMenu" ->
                  (CASE i = 0 -> IF Predictions(d) = 0 THEN table ELSE PredictionsListView(d)
                     [] i = 1 -> GamesListView(d)
                     [] i = 2 -> MainMenuView(d)
                     [] i = 3 -> [table EXCEPT !.running = FALSE]
                     [] OTHER -> table)
             [] table.view = "PredictionsList" ->
                  IF i = n - 1 THEN MainMenuView(d) ELSE table
             [] table.view = "GamesList" ->
                  IF i = n - 1 THEN MainMenuView(d)
                  ELSE IF i = n - 2 THEN CycleFilter(table)
                  ELSE IF table.current_page * games_per_page + i < Len(table.sorted_games)
                       THEN WagerConfirmView(table)
                       ELSE table
             [] table.view = "WagerConfirm" ->
                  (CASE i = 0 -> table
                     [] i = 1 -> [table EXCEPT !.input_focused = TRUE]
                     [] i = 2 -> IF valid THEN GamesListView(d) ELSE table
                     [] i = 3 -> table.previous
                     [] OTHER -> table)
  /\ UNCHANGED <<bridgeVars, minerVars, wagerVars, clientVars, statsVars, construction, incentive>>

\* handle_wager_input_enter, lines 1208-1221.
HandleWagerInputEnter ==
  /\ table.running
  /\ table.view = "WagerConfirm"
  /\ table.input_focused
  /\ table' = [table EXCEPT !.input_focused = FALSE, !.selected_index = 2]
  /\ UNCHANGED <<bridgeVars, minerVars, wagerVars, clientVars, statsVars, construction, incentive>>

(* ------------------------ get_current_incentive ------------------------ *)
\* self.incentive_update_interval = 600, in seconds.
incentive_update_interval == 600

\* The values time.time() takes, the incentives the chain reports, and the
\* ways the refresh can end: well, in metagraph.sync(), or after the sync in
\* state_manager.update_current_incentive.
ClockValues == {0, 300, 599, 600, 900, 1200}
IncentiveValues == {0, 1}
RefreshOutcomes == {"ok", "sync_fails", "update_fails"}

\* A value that may be None is a sequence: <<>> for None, <<x>> for x.
\* The test of line 320 with a strict comparison.
IncentiveDueStrict(last, current_time) ==
  IF last = <<>> THEN TRUE ELSE (current_time - last[1]) > incentive_update_interval

\* Line 320: self.last_incentive_update is None or
\* (current_time - self.last_incentive_update) >= self.incentive_update_interval
IncentiveDue(last, current_time) ==
  IF last = <<>> THEN TRUE ELSE (current_time - last[1]) >= incentive_update_interval

\* Lines 316-341.
GetCurrentIncentive(outcome) ==
  /\ incentive.calls < MaxCalls + 1
  /\ incentive' =
       IF IncentiveDue(incentive.last_incentive_update, incentive.time)
       THEN CASE outcome = "ok" ->
                   [incentive EXCEPT !.calls = @ + 1, !.syncs = @ + 1, !.attempted = TRUE,
                                     !.I = incentive.chain,
                                     !.current_incentive = <<incentive.chain>>,
                                     !.last_incentive_update = <<incentive.time>>,
                                     !.ret = <<incentive.chain>>]
              [] outcome = "sync_fails" ->
                   [incentive EXCEPT !.calls = @ + 1, !.attempted = TRUE, !.ret = <<>>]
              [] outcome = "update_fails" ->
                   [incentive EXCEPT !.calls = @ + 1, !.syncs = @ + 1, !.attempted = TRUE,
                                     !.I = incentive.chain, !.ret = <<>>]
       ELSE [incentive EXCEPT !.calls = @ + 1, !.attempted = FALSE,
                              !.ret = incentive.current_incentive]
  /\ outcome = "ok" \/ IncentiveDue(incentive.last_incentive_update, incentive.time)
  /\ UNCHANGED <<bridgeVars, minerVars, wagerVars, clientVars, statsVars, construction, table>>

\* time.time() moves on.
IncentiveTick ==
  /\ \E c \in ClockValues :
       /\ c > incentive.time
       /\ incentive' = [incentive EXCEPT !.time = c]
  /\ UNCHANGED <<bridgeVars, minerVars, wagerVars, clientVars, statsVars, construction, table>>

\* The chain reports another incentive for the miner.
ChainUpdate ==
  /\ \E v \in IncentiveValues :
       /\ v # incentive.chain
       /\ incentive' = [incentive EXCEPT !.chain = v]
  /\ UNCHANGED <<bridgeVars, minerVars, wagerVars, clientVars, statsVars, construction, table>>

(* ------------------- BettensorMiner.__init__ (threads) ----------------- *)
\* The attributes the constructor sets, in the order of its statements.
IdentityAttrs == {"wallet", "subtensor", "metagraph", "miner_uid"}
RouterAttrs == {"state_manager", "predictions_handler", "games_handler", "cache_manager"}
Components == IdentityAttrs \cup RouterAttrs

\* The statements of the constructor after redis_interface.connect(), the
\* attributes each of them sets, and whether it can raise.
CtorSteps ==
  <<"setup", "db_manager", "state_manager", "predictions_handler", "games_handler",
    "cache_manager", "min_stake", "signals", "incentive">>
CtorSets(step) ==
  CASE step = "setup" -> IdentityAttrs
    [] step = "db_manager" -> {"db_manager"}
    [] step = "state_manager" -> {"state_manager"}
    [] step = "predictions_handler" -> {"predictions_handler"}
    [] step = "games_handler" -> {"games_handler"}
    [] step = "cache_manager" -> {"cache_manager"}
    [] step = "min_stake" -> {"validator_min_stake", "hotkey"}
    [] step = "signals" -> {"hotkey_blacklisted"}
    [] step = "incentive" -> {"last_incentive_update", "incentive_update_interval"}
CtorCanRaise(step) == step \in {"setup", "db_manager"}

\* The constructed miner: every attribute is set, and the listener thread
\* runs when the broker was reachable.
Constructed(connected) ==
  [ctor |-> Len(CtorSteps) + 1,
   attrs |-> {"redis_interface"} \cup UNION {CtorSets(CtorSteps[i]) : i \in DOMAIN CtorSteps},
   thread |-> IF connected THEN "listening" ELSE "none",
   handled |-> 0, missing |-> {}]

\* Lines 58-68: connect(); when it succeeded the listener thread is started,
\* before any other attribute is set.
CtorConnect ==
  /\ construction.ctor = 0
  /\ construction' = [construction EXCEPT !.ctor = 1,
                        !.thread = IF is_connected THEN "started" ELSE "none"]
  /\ UNCHANGED <<bridgeVars, minerVars, wagerVars, clientVars, statsVars, incentive, table>>

\* Lines 70-125: the next statement of the constructor; setup() and
\* get_db_manager() can raise, which ends the constructor.
CtorStep(ok) ==
  /\ construction.ctor \in DOMAIN CtorSteps
  /\ LET step == CtorSteps[construction.ctor] IN
     /\ ok \/ CtorCanRaise(step)
     /\ construction' =
          IF ok THEN [construction EXCEPT !.ctor = @ + 1, !.attrs = @ \cup CtorSets(step)]
          ELSE [construction EXCEPT !.ctor = 0 - 1]
  /\ UNCHANGED <<bridgeVars, minerVars, wagerVars, clientVars, statsVars, incentive, table>>

\* Lines 343-348 in the listener thread: the channel name reads
\* self.miner_uid and self.wallet, an attribute that is not set yet raises
\* AttributeError and ends the thread; subscribe() returning None ends it too.
ListenSubscribe(brokerOk) ==
  /\ construction.thread = "started"
  /\ construction' =
       IF ~({"miner_uid", "wallet"} \subseteq construction.attrs)
       THEN [construction EXCEPT !.thread = "dead",
                                 !.missing = {"miner_uid", "wallet"} \ construction.attrs]
       ELSE [construction EXCEPT !.thread = IF brokerOk THEN "listening" ELSE "returned"]
  /\ UNCHANGED <<bridgeVars, minerVars, wagerVars, clientVars, statsVars, incentive, table>>

\* Lines 350-362: a message is taken and forward() is called; forward()
\* catches the AttributeError of a component that is not set yet and returns
\* the cleaned synapse.
ListenMessage ==
  /\ construction.thread = "listening"
  /\ construction.handled < MaxCalls
  /\ construction' = [construction EXCEPT !.handled = @ + 1,
                        !.missing = @ \cup (RouterAttrs \ construction.attrs)]
  /\ UNCHANGED <<bridgeVars, minerVars, wagerVars, clientVars, statsVars, incentive, table>>

(* ---------------------------- specifications --------------------------- *)
\* connect() has run: is_connected tells whether the broker answered the
\* ping. When it did, the listener thread has subscribed to the miner's
\* channel, which is a command the broker has received.
InitBridge ==
  /\ now = 0
  /\ is_connected \in BOOLEAN
  /\ contacted = is_connected
  /\ store = {}
  /\ written = {}
  /\ published = {}
  /\ inbox = IF is_connected THEN <<[type |-> "subscribe", data |-> NotJson]>> ELSE <<>>
  /\ wpc = [w \in Waiters |-> "idle"]
  /\ wvia = [w \in Waiters |-> "direct"]
  /\ wid = [w \in Waiters |-> NoId]
  /\ wstart = [w \in Waiters |-> 0]
  /\ wres = [w \in Waiters |-> Nil]

\* The constructed miner: the listener thread runs when the broker was
\* reachable, and its subscription has been confirmed.
InitMiner ==
  /\ lpc = IF is_connected THEN "listen" ELSE "off"
  /\ ldata = Nil
  /\ fpc = [t \in Threads |-> "idle"]
  /\ syn = [t \in Threads |-> InitSynapse]
  /\ changed = [t \in Threads |-> EmptyDict]
  /\ recent = [t \in Threads |-> EmptyDict]
  /\ fret = [t \in Threads |-> "pending"]
  /\ fingerprints = EmptyDict
  /\ cached_predictions = EmptyDict
  /\ stats = [applied |-> 0, dirty |-> FALSE]
  /\ served = 0
  /\ sent = 0
  /\ priority = <<>>
  /\ sm_calls = [t \in Threads |-> <<>>]
  /\ last_call = Nil

\* The started client: load_state has run and the games list is shown.
InitWager ==
  /\ today = 0
  /\ state = [miner_cash |-> Num(DailyCash), daily_wager |-> Num(0),
              lifetime_wager |-> Num(0), lifetime_predictions |-> 0,
              lifetime_wins |-> 0, lifetime_losses |-> 0, miner_rank |-> 0,
              current_incentive |-> 0, last_reset |-> 0, reset_pending |-> NoDate]
  /\ miner_cash = Num(DailyCash)
  /\ current_view = "GamesList"
  /\ view_cash = Nil
  /\ wager_text = ""
  /\ confirmation_message = ""
  /\ predictions = <<>>
  /\ stored = <<>>

\* A process, the miner or the client, whose state manager has loaded the
\* totals; nothing is buffered.
InitStats(owner) ==
  /\ manager = [owner |-> owner, persisted |-> NoTotals, buffer |-> NoTotals,
                last_write |-> NoTime, writes |-> 0]
  /\ phase = "running"
  /\ applied_log = <<>>
  /\ pwrites = <<>>

\* A miner whose constructor has ended.
InitConstruction == construction = Constructed(is_connected)
\* Lines 72 and 124: setup() has synced the metagraph, and no refresh has
\* been made.
InitIncentive ==
  incentive = [time |-> 0, last_incentive_update |-> <<>>, chain |-> 1, I |-> 1,
               current_incentive |-> <<0>>, syncs |-> 0, calls |-> 0,
               attempted |-> FALSE, ret |-> <<>>]
\* Line 203: the application opens with the main menu.
InitTable == table = MainMenuView("few")

InitExtra == InitConstruction /\ InitIncentive /\ InitTable

Init == InitBridge /\ InitMiner /\ InitWager /\ InitStats("miner") /\ InitExtra

NextBridge ==
  \/ Tick
  \/ Expire
  \/ \E m \in MsgIds : StoreResult(m)
  \/ \E w \in Waiters, m \in MsgIds : WaitForResult(w, m)
  \/ \E w \in Waiters : ExecuteDbOperation(w)
  \/ \E w \in Waiters : WaitStep(w)
  \/ \E w \in Waiters : ExecuteReturn(w)

SpecBridge == Init /\ [][NextBridge]_vars

Batches == UNION {[S -> GameRecords] : S \in SUBSET Games}

\* The calls a user of the interface makes, beside requests on the axon.
ClientKeys == {ResultKey("id1")}
ClientBatches == {b \in Batches : DOMAIN b = {"g1"} /\ b["g1"].polled = "t1"}

NextClient ==
  \/ \E text \in {NotJson} : Publish(DbChannel, text)
  \/ \E chan \in {DbChannel, MinerChannel} : Subscribe(chan)
  \/ \E key \in ClientKeys : Get(key)
  \/ \E key \in ClientKeys : Set(key, Payload("id1"))
  \/ ExecuteDbOperation("callerA")
  \/ WaitStep("callerA")
  \/ ExecuteReturn("callerA")
  \/ \E h \in {"validator", "stranger"}, batch \in ClientBatches : AxonRequest(h, batch)
  \/ AxonReply
  \/ ForwardCompute("axon")
  \/ ForwardStats("axon")

SpecClient == Init /\ [][NextClient]_vars

NextStats ==
  \/ \E d \in Deltas, applyOk \in BOOLEAN, persistOk \in BOOLEAN :
       ForwardPersist(d, applyOk, persistOk)
  \/ \E persistOk \in BOOLEAN, raises \in BOOLEAN : Stop(persistOk, raises)
  \/ \E persistOk \in BOOLEAN, raises \in BOOLEAN : SignalHandler(persistOk, raises)
  \/ \E p \in PredIds, applyOk \in BOOLEAN : AddPrediction(p, applyOk)
  \/ \E persistOk \in BOOLEAN : Quit(persistOk)
  \/ Tick

\* The state manager of the miner, or that of the client.
InitAnyOwner ==
  InitBridge /\ InitMiner /\ InitWager /\ InitExtra
    /\ \E owner \in {"miner", "cli"} : InitStats(owner)

SpecStats == InitAnyOwner /\ [][NextStats]_vars

\* The constructor at its first statement after the configuration: only the
\* redis interface exists, and no thread has been started.
InitCtor ==
  /\ InitBridge /\ InitMiner /\ InitWager /\ InitStats("miner") /\ InitIncentive /\ InitTable
  /\ construction = [ctor |-> 0, attrs |-> {"redis_interface"}, thread |-> "none",
                     handled |-> 0, missing |-> {}]

NextInit ==
  \/ CtorConnect
  \/ \E ok \in BOOLEAN : CtorStep(ok)
  \/ \E brokerOk \in BOOLEAN : ListenSubscribe(brokerOk)
  \/ ListenMessage

SpecInit == InitCtor /\ [][NextInit]_vars

NextIncentive ==
  \/ \E outcome \in RefreshOutcomes : GetCurrentIncentive(outcome)
  \/ IncentiveTick
  \/ ChainUpdate

SpecIncentive == Init /\ [][NextIncentive]_vars

\* The client started on any of the data sets.
InitCli ==
  /\ InitBridge /\ InitMiner /\ InitWager /\ InitStats("cli") /\ InitConstruction /\ InitIncentive
  /\ \E d \in DataSets : table = MainMenuView(d)

NextCli ==
  \/ MoveUp
  \/ MoveDown
  \/ MoveLeft
  \/ MoveRight
  \/ \E valid \in BOOLEAN : HandleEnter(valid)
  \/ HandleWagerInputEnter

SpecCli == InitCli /\ [][NextCli]_vars

NextMiner ==
  \/ \E h \in Hotkeys, batch \in Batches : AxonRequest(h, batch)
  \/ AxonReply
  \/ \E t \in Threads : ForwardCompute(t)
  \/ \E t \in Threads : ForwardStats(t)
  \/ \E text \in MinerTexts(FreshId(sent + 1)) : ClientPublish(text)
  \/ ListenerReceive
  \/ ListenerRespond

SpecMiner == Init /\ [][NextMiner]_vars

\* The store is written by a reconcile only when a reset is due: its answer
\* matters then, and only then.
PersistOutcomes == IF state.last_reset < today THEN BOOLEAN ELSE {TRUE}

NextWager ==
  \/ \E persistOk \in PersistOutcomes : OpenWager(persistOk)
  \/ \E text \in WagerTexts, persistOk \in PersistOutcomes : TypeWager(text, persistOk)
  \/ \E handlerOk \in BOOLEAN, viewOk \in BOOLEAN, persistOk \in PersistOutcomes :
       ConfirmWager(handlerOk, viewOk, persistOk)
  \/ \E persistOk \in PersistOutcomes : GoBack(persistOk)
  \/ \E persistOk \in PersistOutcomes : MinerStart(persistOk)
  \/ NextDay

SpecWager == Init /\ [][NextWager]_vars

\* A step that calls reconcile_state (or reset_daily_cash) with a store that
\* accepts (persistOk) or refuses the persist.
ReconcileStep(persistOk) ==
  \/ OpenWager(persistOk)
  \/ \E text \in WagerTexts : TypeWager(text, persistOk)
  \/ \E viewOk \in BOOLEAN : ConfirmWager(TRUE, viewOk, persistOk)
  \/ GoBack(persistOk)
  \/ MinerStart(persistOk)

\* The client with the wagers a user can afford, for the reset of the day:
\* every wager typed is accepted and stored.
ResetTexts == {" 1 ", "2"}

NextReset ==
  \/ \E persistOk \in PersistOutcomes : OpenWager(persistOk)
  \/ \E text \in ResetTexts, persistOk \in PersistOutcomes : TypeWager(text, persistOk)
  \/ \E viewOk \in BOOLEAN, persistOk \in PersistOutcomes :
       ConfirmWager(TRUE, viewOk, persistOk)
  \/ \E persistOk \in PersistOutcomes : GoBack(persistOk)
  \/ \E persistOk \in PersistOutcomes : MinerStart(persistOk)
  \/ NextDay

SpecReset == Init /\ [][NextReset]_vars

\* reconcile keeps being called and the store accepts a persist again and again.
FairWager == SpecReset /\ WF_vars(ReconcileStep(TRUE))

\* Time passes, and a thread inside wait_for_result keeps running.
FairBridge ==
  /\ SpecBridge
  /\ WF_vars(Tick)
  /\ \A w \in Waiters : WF_vars(WaitStep(w))

(* ------------------------------- claims -------------------------------- *)
\* C1: when result:m has been stored once and two calls of wait_for_result(m)
\* run in any interleaving, the payload is returned to one caller only: never
\* to both.
C1_ResultDeliveredOnce ==
  \A a \in Waiters, b \in Waiters :
    (a # b /\ wid[a] = wid[b] /\ wid[a] \in written)
      => ~(wpc[a] = "returned" /\ wpc[b] = "returned")

WaitEnded(w) == wpc[w] \in {"returned", "timeout", "raised", "done"}
WaitFailed(w) == wpc[w] \in {"timeout", "raised"} \/ (wpc[w] = "done" /\ wres[w] = Nil)

\* C2: a call of wait_for_result(m) for which no writer ever stores result:m
\* terminates without a payload (it never polls forever), and the loop test
\* made once the deadline has passed ends the call with TimeoutError.
C2_NoWriterTimesOut ==
  /\ [](\A w \in Waiters : wpc[w] = "returned" => wid[w] \in written)
  /\ [][\A w \in Waiters :
          (wpc[w] = "loop" /\ wpc'[w] # "loop" /\ now - wstart[w] >= DefaultTimeout)
            => wpc'[w] = "timeout"]_vars
  /\ \A w \in Waiters : (wpc[w] = "loop") ~> (WaitFailed(w) \/ wid[w] \in written)

C2_Witness ==
  \E w \in Waiters :
    /\ wpc[w] = "timeout"
    /\ wid[w] \notin written
    /\ now - wstart[w] >= DefaultTimeout

\* C3: every key the listener stores a result under is result:<m> for a
\* correlation id m, the key wait_for_result(m) polls.
C3_ListenerKeyIsResultKey ==
  \A e \in store : \E m \in MsgIds : e.key = ResultKey(m)

\* The fields the listener reads from a decoded message.
ListenerFields == {"message_id", "game_id", "game_data"}

\* C4: a request published by execute_db_operation reaches the listener's
\* subscription and carries the fields the listener decodes.
C4_RequestReachesListener ==
  \A p \in published :
    /\ \E i \in DOMAIN inbox : inbox[i].data = p.data
    /\ IsJson(p.data) /\ ListenerFields \subseteq DOMAIN JsonLoads(p.data)

\* C5: every result key written by the listener has a finite expiry.
C5_ListenerKeysExpire ==
  \A e \in store : e.ttl # NoExpiry

\* C6: forward returns a reply object to its caller on every path, the
\* successful one included.
C6_ForwardAlwaysReplies ==
  \A t \in Threads : fpc[t] = "returned" => fret[t] # "None"

\* C7: no inbound message, whether its decoding or its processing fails or
\* succeeds, terminates the listener loop.
C7_ListenerSurvives ==
  lpc # "dead"

\* C8: two executions of the router (direct path, listener thread) are never
\* both between filterChanged and the end of applyDelta/periodicPersist.
InRouter(t) == fpc[t] \in {"compute", "stats"}

C8_RouterSerialized ==
  ~(InRouter("axon") /\ InRouter("listener"))

\* C9: a request is inside the router, mutating the cache or the stats, only
\* if the trust check for its requester passed, on the direct path and on the
\* bridge path.
C9_OnlyTrustedServed ==
  \A t \in Threads : InRouter(t) => ~Blacklist(syn[t].hotkey)

\* C10: when a batch holds changed and unchanged games, the reply holds the
\* merged output set: the new outputs and the cached outputs of the unchanged
\* games of the batch.
C10_ReplyIsMergedSet ==
  [][\A t \in Threads :
       (/\ fpc[t] = "stats"
        /\ fpc'[t] = "returned"
        /\ syn'[t].synapse_type = "prediction"
        /\ DOMAIN changed[t] # {}
        /\ DOMAIN changed[t] # DOMAIN syn[t].gamedata_dict)
         => \A g \in DOMAIN syn[t].gamedata_dict \cap DOMAIN cached_predictions :
              /\ g \in DOMAIN syn'[t].prediction_dict
              /\ syn'[t].prediction_dict[g] = cached_predictions[g]]_vars

\* C11: when filter_changed_games reports no changed game, forward takes its
\* predictions from the cache: the handlers that compute predictions and the
\* cache update are not run in that call.
C11_UnchangedServedFromCache ==
  [][\A t \in Threads :
       (fpc[t] = "compute" /\ fpc'[t] # "compute" /\ DOMAIN changed[t] = {})
         => /\ cached_predictions' = cached_predictions
            /\ IF DOMAIN LastOutputs(cached_predictions) = {}
               THEN fpc'[t] = "returned"
               ELSE /\ fpc'[t] = "stats"
                    /\ recent'[t] = LastOutputs(cached_predictions)]_vars

C11_Witness ==
  \E t \in Threads :
    /\ fpc[t] = "stats"
    /\ DOMAIN syn[t].gamedata_dict # {}
    /\ DOMAIN changed[t] = {}
    /\ DOMAIN recent[t] # {}
    /\ recent[t] = cached_predictions

\* C12: when there is no prediction to return and nothing failed, the reply
\* is an Empty reply that differs from the Error reply of a failure: it is
\* not marked as an error.
C12_EmptyIsNotError ==
  [][\A t \in Threads :
       (/\ fpc[t] = "compute"
        /\ fpc'[t] = "returned"
        /\ DOMAIN changed[t] = {}
        /\ DOMAIN LastOutputs(cached_predictions) = {})
         => syn'[t].synapse_type # "error"]_vars

\* C13: a failure of update_stats_from_predictions or periodic_db_update does
\* not change the reply: the step that ends them always leaves the synapse
\* holding the predictions, marked as a prediction.
C13_PersistFailureKeepsReply ==
  [][\A t \in Threads :
       (fpc[t] = "stats" /\ fpc'[t] = "returned")
         => /\ syn'[t].synapse_type = "prediction"
            /\ syn'[t].prediction_dict = recent[t]]_vars

\* C14: with an empty cache, filter_changed_games(B) returns all of B, and a
\* second call with the same B right after it returns nothing.
C14_SecondFilterIsEmpty ==
  [][\A t \in Threads :
       (fpc[t] = "idle" /\ fpc'[t] = "compute" /\ fingerprints = EmptyDict)
         => /\ changed'[t] = syn'[t].gamedata_dict
            /\ DOMAIN FilterChanged(fingerprints', syn'[t].gamedata_dict) = {}]_vars

C14_Witness ==
  \E t \in Threads :
    /\ fpc[t] = "compute"
    /\ served + sent = 2
    /\ DOMAIN syn[t].gamedata_dict # {}
    /\ DOMAIN fingerprints = DOMAIN syn[t].gamedata_dict
    /\ DOMAIN changed[t] = {}

\* C15: filter_changed_games(batch) returns exactly the records of the batch
\* whose fingerprint is absent from the cache or differs from the stored one;
\* after it the stored fingerprint of every record of the batch is its
\* current one, the entries of other games are unchanged, and no step ever
\* deletes an entry.
C15_FilterChangedExact ==
  [][/\ DOMAIN fingerprints \subseteq DOMAIN fingerprints'
     /\ \A t \in Threads :
          (fpc[t] = "idle" /\ fpc'[t] = "compute") =>
            LET batch == syn'[t].gamedata_dict IN
            /\ DOMAIN changed'[t] =
                 {g \in DOMAIN batch : \/ g \notin DOMAIN fingerprints
                                       \/ fingerprints[g] # Fingerprint(batch[g])}
            /\ \A g \in DOMAIN changed'[t] : changed'[t][g] = batch[g]
            /\ \A g \in DOMAIN batch : fingerprints'[g] = Fingerprint(batch[g])
            /\ \A g \in DOMAIN fingerprints \ DOMAIN batch :
                 fingerprints'[g] = fingerprints[g]]_vars

C15_Witness ==
  \E t \in Threads :
    /\ fpc[t] = "compute"
    /\ DOMAIN changed[t] # {}
    /\ DOMAIN changed[t] # DOMAIN syn[t].gamedata_dict
    /\ \A g \in DOMAIN syn[t].gamedata_dict :
         fingerprints[g] = Fingerprint(syn[t].gamedata_dict[g])

\* C16: a record submitted after a version of it whose fingerprint is stored
\* is reported as changed exactly when the two differ in the mutable fields;
\* versions that differ in the volatile field only are not reported.
C16_VolatileFieldsIgnored ==
  [][\A t \in Threads :
       (fpc[t] = "idle" /\ fpc'[t] = "compute") =>
         LET batch == syn'[t].gamedata_dict IN
         \A g \in DOMAIN batch \cap DOMAIN fingerprints :
           \A prev \in GameRecords :
             fingerprints[g] = Fingerprint(prev)
               => (g \in DOMAIN changed'[t] <=> prev.odds # batch[g].odds)]_vars

C16_Witness ==
  \E a \in Threads, b \in Threads, g \in Games :
    /\ fpc[a] \in {"compute", "stats"}
    /\ fpc[b] = "compute"
    /\ g \in DOMAIN syn[a].gamedata_dict \cap DOMAIN syn[b].gamedata_dict
    /\ syn[a].gamedata_dict[g].odds = syn[b].gamedata_dict[g].odds
    /\ syn[a].gamedata_dict[g].polled # syn[b].gamedata_dict[g].polled
    /\ g \in DOMAIN changed[a]
    /\ g \notin DOMAIN changed[b]

\* C17: the cached predictions are empty at the start and change only by
\* update_cached_predictions(new), which sets the entry of every game of new
\* to its new value and leaves the entry of every other game as it was.
C17_MergeFrame ==
  /\ DOMAIN LastOutputs(cached_predictions) = {}
  /\ [][\/ cached_predictions' = cached_predictions
        \/ \E t \in Threads :
             /\ fpc[t] = "compute" /\ fpc'[t] = "stats"
             /\ DOMAIN changed[t] # {}
             /\ DOMAIN LastOutputs(cached_predictions') =
                  DOMAIN cached_predictions \cup DOMAIN recent'[t]
             /\ \A g \in DOMAIN recent'[t] :
                  LastOutputs(cached_predictions')[g] = recent'[t][g]
             /\ \A g \in DOMAIN cached_predictions \ DOMAIN recent'[t] :
                  LastOutputs(cached_predictions')[g] = cached_predictions[g]]_vars

C17_Witness ==
  \E t \in Threads :
    /\ fpc[t] = "stats"
    /\ DOMAIN changed[t] # {}
    /\ DOMAIN recent[t] # {}
    /\ DOMAIN cached_predictions \ DOMAIN recent[t] # {}
    /\ \A g \in DOMAIN recent[t] : cached_predictions[g] = recent[t][g]

\* A step of "Confirm Wager", and the wager it is about.
ConfirmStep ==
  \E handlerOk \in BOOLEAN, viewOk \in BOOLEAN, persistOk \in BOOLEAN :
    ConfirmWager(handlerOk, viewOk, persistOk)
WagerAmount == ParseFloat(wager_text)

\* C18: the cash is never negative; it gets lower only in a step that stores
\* a confirmed wager and gets higher only in a step that makes a daily reset.
C18_CashNeverNegative ==
  /\ [](FloatLe(Num(0), state.miner_cash))
  /\ [][/\ FloatGt(state.miner_cash, state'.miner_cash) => stored' # stored
        /\ FloatGt(state'.miner_cash, state.miner_cash)
             => state.last_reset < today]_vars

\* C19: a confirmation whose amount is not positive, or is more than the
\* cash the identity holds at that moment, stores no prediction record and
\* leaves the stats as a reload alone leaves them.
C19_InvalidWagerRejected ==
  [][(/\ ConfirmStep
      /\ WagerAmount # ValueError
      /\ \/ ~FloatGt(WagerAmount, Num(0))
         \/ FloatGt(WagerAmount, Reconcile(state, today, TRUE).miner_cash))
       => /\ predictions' = predictions
          /\ stored' = stored
          /\ \E persistOk \in BOOLEAN : state' = Reconcile(state, today, persistOk)]_vars

\* C20: a step that stores a confirmed wager of amount W, made on a day whose
\* reset is done, lowers the cash by exactly W, and the reload that follows
\* shows the lowered cash.
C20_WagerDebitsExactly ==
  [][(ConfirmStep /\ stored' # stored /\ state.last_reset = today)
       => /\ state'.miner_cash = FloatSub(state.miner_cash, WagerAmount)
          /\ Reconcile(state', today', TRUE).miner_cash = FloatSub(state.miner_cash, WagerAmount)
          /\ miner_cash' = FloatSub(state.miner_cash, WagerAmount)]_vars

\* The stats without the bookkeeping of the reset.
Counters(s) == [f \in DOMAIN s \ {"last_reset", "reset_pending"} |-> s[f]]

\* The stats a step starts from once its wager, if it stores one, is applied.
AfterWager ==
  IF stored' # stored THEN UpdateOnPrediction(state, FloatNeg(WagerAmount)) ELSE state

C22_ResetKeepsLifetime ==
  [][(today' = today /\ state.last_reset < today)
       => \A f \in LifetimeFields : state'[f] = AfterWager[f]]_vars

C22_Witness ==
  /\ today > 0
  /\ state.last_reset = today
  /\ state.daily_wager = Num(0)
  /\ state.lifetime_wager # Num(0)
  /\ state.lifetime_predictions > 0

\* C23: within a day the reset state moves only along Normal -> ResetPending
\* -> ResetDone; the last-reset date advances only to the current date and
\* only in a call whose persist succeeded; a call whose persist failed leaves
\* the reset pending and the date as it was.
C23_ResetStateMachine ==
  [][/\ today' = today
          => <<ResetState(state, today), ResetState(state', today)>> \in
               {<<"Normal", "Normal">>, <<"Normal", "ResetPending">>,
                <<"Normal", "ResetDone">>, <<"ResetPending", "ResetPending">>,
                <<"ResetPending", "ResetDone">>, <<"ResetDone", "ResetDone">>}
     /\ state'.last_reset # state.last_reset
          => state'.last_reset = today /\ ReconcileStep(TRUE)
     /\ (ReconcileStep(FALSE) /\ state.last_reset < today)
          => /\ ResetState(state', today) = "ResetPending"
             /\ state'.last_reset = state.last_reset]_vars

C23_Witness ==
  /\ ResetState(state, today) = "ResetPending"
  /\ state.last_reset < today
  /\ current_view = "WagerConfirm"

C29_BrokerErrorsCaught ==
  \A w \in Waiters : wpc[w] = "raised" => wvia[w] = "exec"

\* C30: the priority of an accepted request is the stake of its caller, or
\* the maximum for a whitelisted caller, and every request that passed
\* blacklist() has one.
C30_PriorityIsStake ==
  /\ priority # <<>> =>
       LET h == syn["axon"].hotkey IN
       /\ ~Blacklist(h)
       /\ priority[1] = IF CheckWhitelist(h) THEN MaxPriority ELSE Stake[h]
  /\ (fpc["axon"] # "idle" /\ fret["axon"] # "Unauthorized") => priority # <<>>

C30_Witness ==
  /\ fpc["axon"] = "compute"
  /\ syn["axon"].hotkey = "validator"
  /\ priority = <<1000>>

\* C25: a delta whose predictions have all been applied and persisted is
\* applied again without effect: the lifetime totals and the stats reconcile
\* returns are those of before the second application.
C25_NoDoubleCount ==
  [][\A d \in Deltas :
       (/\ d # {}
        /\ d \subseteq manager.persisted.seen
        /\ \E persistOk \in BOOLEAN : ForwardPersist(d, TRUE, persistOk))
       => /\ GetStats(manager').lifetime_predictions = GetStats(manager).lifetime_predictions
          /\ GetStats(manager').lifetime_wager = GetStats(manager).lifetime_wager
          /\ GetStats(manager') = GetStats(manager)]_vars

C25_Witness ==
  /\ Len(applied_log) = 2
  /\ applied_log[1].delta = PredIds /\ applied_log[1].applied
  /\ applied_log[2].delta = PredIds /\ applied_log[2].applied
  /\ Len(pwrites) = 2
  /\ GetStats(manager).lifetime_predictions = 2

\* A flush that the store accepts.
AcceptedFlush ==
  \/ \E raises \in BOOLEAN : Stop(TRUE, raises) \/ SignalHandler(TRUE, raises)
  \/ Quit(TRUE)

\* C26: two writes of periodic_db_update are at least the minimum interval
\* apart, however often it is called; a flush writes whatever the time of
\* the last write.
C26_PeriodicWritesApart ==
  /\ [](\A i, j \in DOMAIN pwrites : i < j => pwrites[j] - pwrites[i] >= MinInterval)
  /\ [][AcceptedFlush => /\ manager'.writes = manager.writes + 1
                         /\ manager'.persisted = GetStats(manager)]_vars

C26_Witness ==
  /\ Len(pwrites) = 2
  /\ phase = "stopped"
  /\ manager.writes = 3
  /\ manager.last_write = pwrites[2]

\* The predictions of the deltas applied before the shutdown began.
BeforeShutdown ==
  UNION {applied_log[i].delta : i \in {k \in DOMAIN applied_log :
                                        applied_log[k].phase = "running" /\ applied_log[k].applied}}

C31_StatsCallOrder ==
  [][\A t \in Threads :
       /\ (fpc[t] = "stats" /\ fpc'[t] = "returned")
            => sm_calls'[t] =
                 (IF DOMAIN changed[t] # {}
                  THEN <<"update_stats_from_predictions">> ELSE <<>>)
                   \o <<"periodic_db_update">>
       /\ (fpc[t] = "compute" /\ fpc'[t] = "returned") => sm_calls'[t] = <<>>]_vars

\* C32: when forward ends with the error reply on a batch with changed games,
\* the stored fingerprints do not cover those games: the same batch handed in
\* again has them reported as changed.
C32_FailureKeepsFingerprints ==
  [][\A t \in Threads :
       (/\ InRouter(t)
        /\ fpc'[t] = "returned"
        /\ syn'[t].synapse_type = "error"
        /\ DOMAIN changed[t] # {})
         => DOMAIN changed[t] \subseteq
              DOMAIN FilterChanged(fingerprints', syn[t].gamedata_dict)]_vars

\* C33: in every interleaving of the constructor and the listener thread, the
\* identity, the cache, the handlers and the state manager are set when the
\* listener builds its channel and subscribes, and when it calls forward().
C33_ListenerAfterInit ==
  [][(\E brokerOk \in BOOLEAN : ListenSubscribe(brokerOk)) \/ ListenMessage
       => Components \subseteq construction.attrs]_vars

\* The listener thread is not a daemon thread: while it runs, the interpreter
\* waits for it at exit.
ListenerAlive == construction.thread \in {"started", "listening"}

\* C34: once the signal handler has run stop() and sys.exit(0), the listener
\* loop no longer runs, so nothing keeps the process alive.
C34_ExitEndsListener ==
  (manager.owner = "miner" /\ phase = "exited") => ~ListenerAlive

\* C35: execute_db_operation never raises and never hangs. Whatever way
\* wait_for_result ended (payload, TimeoutError, broker exception), the call
\* returns: the decoded payload when one arrived and is JSON, None otherwise;
\* a payload it returns was stored for its own message id; a call made while
\* not connected returns None at once and publishes nothing; and a wait that
\* has begun always ends.
C35_ExecuteNeverRaises ==
  /\ [][\A w \in Waiters :
          (wvia[w] = "exec" /\ wpc[w] \in {"returned", "timeout", "raised"} /\ wpc'[w] # wpc[w])
            => /\ wpc'[w] = "done"
               /\ wres'[w] = IF wpc[w] = "returned" /\ IsJson(wres[w])
                             THEN JsonLoads(wres[w]) ELSE Nil]_vars
  /\ [](\A w \in Waiters :
          (wvia[w] = "exec" /\ wpc[w] = "done" /\ wres[w] # Nil)
            => (wid[w] \in written /\ wres[w] = JsonLoads(Payload(wid[w]))))
  /\ [][\A w \in Waiters :
          (wpc[w] = "idle" /\ wpc'[w] # "idle" /\ wvia'[w] = "exec" /\ ~is_connected)
            => /\ wpc'[w] = "done" /\ wres'[w] = Nil
               /\ published' = published /\ inbox' = inbox /\ contacted' = contacted]_vars
  /\ \A w \in Waiters : (wvia[w] = "exec" /\ wpc[w] = "loop") ~> WaitEnded(w)

\* One call has returned the decoded payload, and the other has received a
\* payload that is not JSON.
C35_Witness ==
  \E a \in Waiters, b \in Waiters :
    /\ wvia[a] = "exec" /\ wpc[a] = "done" /\ wres[a] = JsonLoads(Payload("id1"))
    /\ wvia[b] = "exec" /\ wpc[b] = "returned" /\ wres[b] = NotJson

\* The first test of blacklist() that turns the caller h away: 1 the
\* metagraph, 2 the validator permit, 3 the stake; 0 when none does.
FirstFailing(h) ==
  IF h \notin MetagraphHotkeys THEN 1
  ELSE IF ~validator_permit[h] THEN 2
  ELSE IF Stake[h] < validator_min_stake THEN 3
  ELSE 0

\* C36: a request is turned away exactly when its caller is not on the
\* allow-list and is unknown to the metagraph, or has no validator permit, or
\* has a stake below validator_min_stake; the reason given is that of the
\* first of these tests that fails, and a stake equal to the minimum passes.
C36_BlacklistExactly ==
  /\ [](\A h \in Hotkeys :
          /\ Blacklist(h) <=> (~CheckWhitelist(h) /\ FirstFailing(h) # 0)
          /\ ~CheckWhitelist(h) =>
               BlacklistReason(h) =
                 CASE FirstFailing(h) = 1 -> "was not found from metagraph.hotkeys"
                   [] FirstFailing(h) = 2 -> "is not a validator"
                   [] FirstFailing(h) = 3 -> "has insufficient stake"
                   [] OTHER -> "Accepted hotkey"
          /\ (h \in MetagraphHotkeys /\ validator_permit[h] /\ Stake[h] = validator_min_stake)
               => ~Blacklist(h))
  /\ [][\A h \in Hotkeys :
          (\E batch \in Batches : AxonRequest(h, batch))
            => ((fret'["axon"] = "Unauthorized")
                  <=> (~CheckWhitelist(h) /\ FirstFailing(h) # 0))]_vars

\* A caller whose stake equals the minimum has been served, after a request
\* that was turned away.
C36_Witness ==
  /\ served = 2
  /\ fpc["axon"] = "returned"
  /\ fret["axon"] # "Unauthorized"
  /\ syn["axon"].hotkey = "validator"
  /\ Stake["validator"] = validator_min_stake

\* C37: a call of get_current_incentive syncs the metagraph when no refresh
\* has succeeded yet or when at least 600 s have passed since the last one
\* that did, and then returns the fresh incentive and records the time; any
\* other call returns the state manager's incentive and syncs nothing. A
\* refresh that fails returns None and leaves last_incentive_update as it
\* was, so that the refresh is still due afterwards.
C37_IncentiveRefresh ==
  /\ [][incentive'.calls = incentive.calls + 1 =>
          LET last == incentive.last_incentive_update
              due == IF last = <<>> THEN TRUE ELSE incentive.time - last[1] >= 600
          IN  IF due
              THEN /\ incentive'.attempted
                   /\ \/ /\ incentive'.syncs = incentive.syncs + 1
                         /\ incentive'.ret = <<incentive.chain>>
                         /\ incentive'.current_incentive = <<incentive.chain>>
                         /\ incentive'.last_incentive_update = <<incentive.time>>
                      \/ /\ incentive'.ret = <<>>
                         /\ incentive'.last_incentive_update = last
                         /\ incentive'.current_incentive = incentive.current_incentive
              ELSE /\ ~incentive'.attempted
                   /\ incentive'.syncs = incentive.syncs
                   /\ incentive'.I = incentive.I
                   /\ incentive'.ret = incentive.current_incentive
                   /\ incentive'.last_incentive_update = last]_vars
  /\ []((incentive.calls > 0 /\ incentive.attempted /\ incentive.ret = <<>>)
          => (IF incentive.last_incentive_update = <<>> THEN TRUE
              ELSE incentive.time - incentive.last_incentive_update[1] >= 600))

\* Three calls have been made: the refresh at 300 s succeeded, and the last
\* call, exactly 600 s after it, synced and failed.
C37_Witness ==
  /\ incentive.calls = 3
  /\ incentive.last_incentive_update = <<300>>
  /\ incentive.time = 900
  /\ incentive.attempted /\ incentive.ret = <<>>
  /\ incentive.syncs = 2

\* C38: in every view, from its creation on and after any keys, the cursor
\* is on an existing option: 0 <= selected_index <= len(options) - 1.
C38_CursorInRange ==
  table.running =>
    (0 <= table.selected_index /\ table.selected_index <= table.n_options - 1)

\* The games the filter f lets through.
Filtered(d, f) == {g \in AppGames(d) : Upcoming(g) /\ (f = AllSports \/ g.sport = f)}

\* C39: after cycle_filter the list holds exactly the upcoming games of the
\* sport current_filter (all of them for "All Sports"), the filter has moved
\* to the next sport, or back to "All Sports" after the last, and
\* current_page and selected_index are 0.
C39_FilterApplies ==
  [][(table.view = "GamesList" /\ table.running
        /\ table.selected_index = table.n_options - 2
        /\ table' = CycleFilter(table))
       => LET sports == AvailableSports(table.data)
              f == table'.current_filter
          IN  /\ f = IF table.current_filter = AllSports
                     THEN (IF Len(sports) > 0 THEN sports[1] ELSE AllSports)
                     ELSE IF IndexOf(sports, table.current_filter) < Len(sports)
                          THEN sports[IndexOf(sports, table.current_filter) + 1]
                          ELSE AllSports
              /\ table'.current_page = 0 /\ table'.selected_index = 0
              /\ {table'.sorted_games[k] : k \in DOMAIN table'.sorted_games}
                   = {g.id : g \in Filtered(table.data, f)}]_vars

====
